---- MODULE Spec2Model ----
(***************************************************************************)
(* Knit Bingo application shell (frontend/src/App.tsx) as a state machine. *)
(*                                                                         *)
(* React state slots are the variables.  Boards are JavaScript arrays of   *)
(* card objects, so they are modelled as references into a heap (arrs,     *)
(* objs): copying, sharing and in-place mutation are then distinguishable. *)
(* An async handler runs to its first await in one step (the click) and    *)
(* resumes in a later step (the response) with the values its closure      *)
(* captured at the click; the captured values travel in the request record.*)
(***************************************************************************)
EXTENDS Integers, Sequences, FiniteSets, Bags, TLC

VARIABLES
    apiUrl,          \* import.meta.env.VITE_API_URL, fixed for the session
    email,           \* sequence of characters
    error,           \* string or Null
    magicLink,       \* string or Null
    magicCode,       \* sequence of characters
    token,           \* string or Null
    communityCards,  \* sequence of cards
    toast,           \* string or Null
    pulseEmail,      \* BOOLEAN
    flyGhost,        \* <<>> (null) or <<ghost>>
    draftBoard,      \* reference into arrs
    savedBoard,      \* reference into arrs
    objs,            \* heap of card objects
    arrs,            \* heap of arrays of card-object references
    net,             \* bag of fetches in flight, each with its closure
    timers,          \* bag of pending window.setTimeout callbacks
    toastAge,        \* ms since showAuthToast last showed the toast
    ev,              \* the handler step that ran last
    isPaused,        \* CommunityCarousel: BOOLEAN state slot
    scrollTop,       \* the scroller's scrollTop, in twentieths of a pixel
    layout,          \* the scroller's scrollHeight and clientHeight
    mounted,         \* CommunityCarousel is in the tree
    effect,          \* <<>> or <<the closure of the effect that ran last>>
    frames,          \* pending requestAnimationFrame callbacks
    revision,        \* which BingoCard source the build uses
    isTossing,       \* BingoCard: BOOLEAN state slot, per board cell
    actionEvents     \* onToss / onContribute calls made, per board cell

shellVars == <<apiUrl, email, error, magicLink, magicCode, token, communityCards,
               toast, pulseEmail, flyGhost, draftBoard, savedBoard, objs, arrs,
               net, timers, toastAge>>
carouselVars == <<isPaused, scrollTop, layout, mounted, effect, frames>>
cardVars == <<revision, isTossing, actionEvents>>
componentVars == <<carouselVars, cardVars>>

vars == <<shellVars, ev, componentVars>>

(***************************************************************************)
(* Bounds of the model.                                                    *)
(***************************************************************************)
MaxEdits == 2        \* onCardTextChange calls in one behaviour
MaxGateEdits == 1    \* the same, in the scenario of the login-gated controls
MaxCellIndex == 1    \* the user touches board cells 0..MaxCellIndex
MaxInFlight == 2     \* fetches awaiting a response at once
MaxToasts == 2       \* toast timers pending at once
MaxScrollHeight == 3 \* the scroller's content is 1..MaxScrollHeight pixels tall
MaxClicks == 3       \* action events one card emits in one behaviour

(***************************************************************************)
(* Program constants.                                                      *)
(***************************************************************************)
BoardSize == 9
DefaultCommunityCount == 15
PulseDelayMs == 900
ToastDelayMs == 2800
ScrollerOffsetX == 36
ScrollerOffsetY == 48
PxScale == 20            \* lengths of the carousel are in 1/20 px, so that
speedPxPerFrame == 7     \* 0.35 px is 7 and half of a whole height is whole

Null == "<null>"

\* JavaScript truthiness of a string-or-null value: !v
Falsy(v) == v = Null \/ v = ""

DEFAULT_COLORS ==
    << "#FFF4E6", "#F3F8FF", "#F7F0FF", "#F0FFF6", "#FFF0F5",
       "#FFF8E1", "#EAF7F7", "#F5F5FF", "#FFF1E6" >>

DefaultCommunityTexts ==
    << "Tangled yarn? Breathe.",
       "Try a new stitch today",
       "Knit 5 rows mindfully",
       "Fix one tiny mistake",
       "Cast on something bold",
       "Swatch before you commit",
       "Take a progress photo",
       "Block it. Trust the process.",
       "Weave in ends (future you says thanks)",
       "Celebrate small wins",
       "Learn one new technique",
       "Use the fancy yarn",
       "Count your stitches twice",
       "Make it cozy",
       "Toss perfectionism into the universe" >>

\* Array.from({ length: 15 }, (_, i) => ...): position j here is i + 1
DEFAULT_COMMUNITY_CARDS ==
    [j \in 1..DefaultCommunityCount |->
        [id |-> "default-" \o ToString(j),
         text |-> DefaultCommunityTexts[j],
         backgroundColor |-> DEFAULT_COLORS[((j - 1) % Len(DEFAULT_COLORS)) + 1]]]

\* The card values of a fresh board; position j here is i + 1
createEmptyBoard ==
    [j \in 1..BoardSize |->
        [id |-> ToString(j), text |-> "", backgroundColor |-> DEFAULT_COLORS[j]]]

(***************************************************************************)
(* Heap access.                                                            *)
(***************************************************************************)
\* The cards an array reference denotes, by value
Deref(a) == [j \in 1..Len(arrs[a]) |-> objs[arrs[a][j]]]

\* JSON.stringify of a card: its fields in key order
StringifyCard(c) == <<c.id, c.text, c.backgroundColor>>

\* JSON.stringify of a board
JSONStringify(a) == [j \in 1..Len(arrs[a]) |-> StringifyCard(objs[arrs[a][j]])]

\* s.includes('+')
IncludesPlus(s) == \E k \in 1..Len(s) : s[k] = "+"

emailHasPlus == IncludesPlus(email)

hasUnsavedChanges == JSONStringify(draftBoard) # JSONStringify(savedBoard)

\* disabled={!hasUnsavedChanges || !token}
SaveDisabled == ~hasUnsavedChanges \/ Falsy(token)

\* disabled={!email || emailHasPlus}, rendered only when !magicLink
SendDisabled == Len(email) = 0 \/ emailHasPlus

(***************************************************************************)
(* Inputs: what the user types and what the backend answers.               *)
(***************************************************************************)
Emails == { <<>>, <<"a", "@", "b">>, <<"a", "+", "b">> }

Codes == { <<>>, <<" ">>, <<" ", "1">> }

Texts == { "", "Knit a swatch" }

CellIndexes == 0..MaxCellIndex

ApiUrls == { Null, "https://api.example/" }

ListA == << [id |-> "c1", text |-> "Knit a swatch", backgroundColor |-> "#FFF4E6"] >>

ListB == << [id |-> "c1", text |-> "Knit a swatch", backgroundColor |-> "#FFF4E6"],
            [id |-> "c2", text |-> "", backgroundColor |-> "#F3F8FF"] >>

\* data.cards of a community/cards body: missing, not an array, or an array
CardsAbsent == [tag |-> "absent", items |-> <<>>]
CardsNotArray == [tag |-> "other", items |-> <<>>]
CardsArray(items) == [tag |-> "array", items |-> items]

\* fetch() rejected: the backend was not reached
Unreachable ==
    [reach |-> FALSE, ok |-> FALSE, status |-> 0, json |-> FALSE,
     message |-> Null, token |-> Null, cards |-> CardsAbsent]

\* HTTP responses: resp.ok, resp.status, whether resp.json() parses, and the
\* fields of the parsed body the handlers read
HttpResponses(messages, tokens, cardss) ==
    { r \in [reach : {TRUE}, ok : BOOLEAN, status : {200, 500}, json : BOOLEAN,
             message : messages, token : tokens, cards : cardss] :
        /\ r.ok <=> r.status = 200
        /\ ~r.json => r.message = Null /\ r.token = Null /\ r.cards = CardsAbsent }

Responses(kind) ==
    {Unreachable} \cup
    CASE kind = "magic-link" -> HttpResponses({Null, "nope"}, {Null}, {CardsAbsent})
      [] kind = "verify" -> HttpResponses({Null, "nope"}, {Null, "", "tok"}, {CardsAbsent})
      [] kind = "save" -> HttpResponses({Null, "nope"}, {Null}, {CardsAbsent})
      [] kind = "contribute" -> HttpResponses({Null}, {Null}, {CardsAbsent})
      [] kind = "community" ->
            HttpResponses({Null}, {Null},
                          {CardsAbsent, CardsNotArray, CardsArray(<<>>),
                           CardsArray(ListA), CardsArray(ListB)})

\* cardEl.getBoundingClientRect() and the scroller's, when it is found
CardRects == { [left |-> 10, top |-> 20, width |-> 120, height |-> 120] }
ScrollerRects == { <<>>, << [left |-> 700, top |-> 0] >> }
UUIDs == { "uuid-1" }

\* e.message of what fetch() and resp.json() throw (set by the browser)
FetchErrorMessage == "Failed to fetch"
JsonErrorMessage == "Unexpected token < in JSON"

\* How a response is labelled in ev when the handler's resp.json() matters
Outcome(resp) ==
    IF ~resp.reach THEN "unreachable"
    ELSE IF ~resp.json THEN (IF resp.ok THEN "okBadBody" ELSE "failBadBody")
    ELSE IF resp.ok THEN "ok" ELSE "fail"

\* data.message ?? `<what> failed (${resp.status})`
FailedMessage(what, resp) ==
    IF resp.message # Null THEN resp.message
    ELSE what \o " failed (" \o ToString(resp.status) \o ")"

RECURSIVE TrimStart(_)
TrimStart(s) == IF Len(s) > 0 /\ Head(s) = " " THEN TrimStart(Tail(s)) ELSE s

RECURSIVE TrimEnd(_)
TrimEnd(s) ==
    IF Len(s) > 0 /\ s[Len(s)] = " " THEN TrimEnd(SubSeq(s, 1, Len(s) - 1)) ELSE s

\* String.prototype.trim
Trim(s) == TrimEnd(TrimStart(s))

(***************************************************************************)
(* Fetches in flight.  A record carries what was sent and what the         *)
(* handler's closure holds for the code after the await.                   *)
(***************************************************************************)
Request(kind) ==
    [kind |-> kind, auth |-> Null, board |-> 0, cards |-> <<>>, card |-> 0,
     cardJson |-> <<>>, email |-> <<>>, code |-> <<>>, catcher |-> ""]

InFlight == BagToSet(net)

Send(r) == net (+) SetToBag({r})

Receive(r) == net (-) SetToBag({r})

CanSend == BagCardinality(net) < MaxInFlight

\* loadCommunityCards() up to its await, called from a handler that already
\* holds a truthy apiUrl; catcher names the try block it runs in, if any
LoadCommunityCardsRequest(catcher) ==
    [Request("community") EXCEPT !.catcher = catcher]

Event(op, arg) == [op |-> op, arg |-> arg]

\* ev after a step no property singles out
Idle == Event("", "")

authVars == <<email, magicLink, magicCode, token>>
boardVars == <<draftBoard, savedBoard, objs, arrs>>
toastVars == <<toast, pulseEmail, timers, toastAge>>

(***************************************************************************)
(* Construction.                                                           *)
(***************************************************************************)
\* The state slots of App after its first render
ShellInit ==
    /\ apiUrl \in ApiUrls
    /\ email = <<>>
    /\ error = Null
    /\ magicLink = Null
    /\ magicCode = <<>>
    /\ token = Null
    /\ communityCards = DEFAULT_COMMUNITY_CARDS
    /\ toast = Null
    /\ pulseEmail = FALSE
    /\ flyGhost = <<>>
    /\ objs = createEmptyBoard \o createEmptyBoard
    /\ arrs = << [j \in 1..BoardSize |-> j], [j \in 1..BoardSize |-> BoardSize + j] >>
    /\ draftBoard = 1
    /\ savedBoard = 2
    /\ net = EmptyBag
    /\ timers = <<>>
    /\ toastAge = 0
    /\ ev = Idle

\* The scroller's geometry: content of h pixels in a viewport of c pixels
\* (scrollHeight is never less than clientHeight)
Layouts ==
    { l \in { [scrollHeight |-> h * PxScale, clientHeight |-> c * PxScale] :
                 h \in 1..MaxScrollHeight, c \in 1..MaxScrollHeight } :
        l.clientHeight <= l.scrollHeight }

\* Two copies of the default list in a viewport shorter than one copy
DefaultLayout == [scrollHeight |-> 3 * PxScale, clientHeight |-> PxScale]

\* CommunityCarousel after its first render: the effect has not run yet
CarouselInit(l) ==
    /\ isPaused = FALSE
    /\ scrollTop = 0
    /\ layout = l
    /\ mounted = TRUE
    /\ effect = <<>>
    /\ frames = {}

\* The two BingoCard sources: the Toss button, and the Contribute button
\* that BingoBoard and App are written against
Revisions == {"toss", "contribute"}

\* The editable, tossable cards of the board after their first render
CardInit(rev) ==
    /\ revision = rev
    /\ isTossing = [i \in CellIndexes |-> FALSE]
    /\ actionEvents = [i \in CellIndexes |-> 0]

Init ==
    /\ ShellInit
    /\ CarouselInit(DefaultLayout)
    /\ CardInit("contribute")

(***************************************************************************)
(* Form fields.                                                            *)
(***************************************************************************)
\* onChange of the email input
SetEmailTo(e) ==
    /\ e # email
    /\ email' = e
    /\ ev' = Idle
    /\ UNCHANGED <<apiUrl, error, magicLink, magicCode, token, communityCards,
                   flyGhost, net>>
    /\ UNCHANGED boardVars
    /\ UNCHANGED toastVars
    /\ UNCHANGED componentVars

SetEmail == \E e \in Emails : SetEmailTo(e)

\* onChange of the magic-code input, rendered while magicLink is truthy
SetMagicCodeTo(c) ==
    /\ ~Falsy(magicLink)
    /\ c # magicCode
    /\ magicCode' = c
    /\ ev' = Idle
    /\ UNCHANGED <<apiUrl, email, error, magicLink, token, communityCards,
                   flyGhost, net>>
    /\ UNCHANGED boardVars
    /\ UNCHANGED toastVars
    /\ UNCHANGED componentVars

SetMagicCode == \E c \in Codes : SetMagicCodeTo(c)

\* "Start over", rendered while magicLink is truthy
StartOver ==
    /\ ~Falsy(magicLink)
    /\ magicLink' = Null
    /\ magicCode' = <<>>
    /\ ev' = Idle
    /\ UNCHANGED <<apiUrl, email, error, token, communityCards, flyGhost, net>>
    /\ UNCHANGED boardVars
    /\ UNCHANGED toastVars
    /\ UNCHANGED componentVars

(***************************************************************************)
(* The board.                                                              *)
(***************************************************************************)
\* A buggy updater: writes the text into the card object the arrays share
onCardTextChangeInPlace(index, nextText) ==
    [objs |-> [objs EXCEPT ![arrs[draftBoard][index + 1]].text = nextText],
     arrs |-> arrs,
     draftBoard |-> draftBoard]

\* A buggy updater: next.splice(index, 1) drops the card instead of
\* replacing it
onCardTextChangeRemovesCard(index, nextText) ==
    LET prev == arrs[draftBoard]
    IN  [objs |-> objs,
         arrs |-> Append(arrs, [j \in 1..(Len(prev) - 1) |->
                                   IF j < index + 1 THEN prev[j] ELSE prev[j + 1]]),
         draftBoard |-> Len(arrs) + 1]

\* The updater passed to setDraftBoard: next = [...prev] is a new array of the
\* same card objects, and next[index] a new card object
onCardTextChangeUpdate(index, nextText) ==
    LET prev == arrs[draftBoard]
        card == [objs[prev[index + 1]] EXCEPT !.text = nextText]
    IN  [objs |-> Append(objs, card),
         arrs |-> Append(arrs, [prev EXCEPT ![index + 1] = Len(objs) + 1]),
         draftBoard |-> Len(arrs) + 1]

\* BingoBoard's guard: the component throws unless it is given exactly 9 cards
BingoBoardThrows(cards) == Len(cards) # BoardSize

\* onCardTextChange(index, nextText), at most maxEdits times in a behaviour
TextChangeWithin(maxEdits) ==
    \E index \in CellIndexes, nextText \in Texts :
        /\ Len(arrs) < 2 + maxEdits
        /\ nextText # objs[arrs[draftBoard][index + 1]].text
        /\ LET h == onCardTextChangeUpdate(index, nextText)
           IN  /\ objs' = h.objs
               /\ arrs' = h.arrs
               /\ draftBoard' = h.draftBoard
        /\ ev' = Event("onCardTextChange", "")
        /\ UNCHANGED <<apiUrl, error, communityCards, flyGhost, savedBoard, net>>
        /\ UNCHANGED authVars
        /\ UNCHANGED toastVars
        /\ UNCHANGED componentVars

onCardTextChange == TextChangeWithin(MaxEdits)

(***************************************************************************)
(* The login toast and its timers.                                         *)
(***************************************************************************)
AuthToastText == "Log in to contribute and save your bingo."

Timer(kind, delay) == [kind |-> kind, remaining |-> delay]

PendingToastTimers == Cardinality({k \in 1..Len(timers) : timers[k].kind = "toast"})

CanShowToast == PendingToastTimers < MaxToasts

\* showAuthToast(): two window.setTimeout calls, nothing is ever cleared
showAuthToast ==
    /\ toast' = AuthToastText
    /\ pulseEmail' = TRUE
    /\ timers' = timers \o << Timer("pulse", PulseDelayMs), Timer("toast", ToastDelayMs) >>
    /\ toastAge' = 0

\* The toast's dismiss button, rendered while toast is truthy
DismissToast ==
    /\ ~Falsy(toast)
    /\ toast' = Null
    /\ toastAge' = 0
    /\ ev' = Idle
    /\ UNCHANGED <<apiUrl, error, communityCards, flyGhost, net, pulseEmail, timers>>
    /\ UNCHANGED authVars
    /\ UNCHANGED boardVars
    /\ UNCHANGED componentVars

Due == {k \in 1..Len(timers) : timers[k].remaining = 0}

Remove(seq, k) == SubSeq(seq, 1, k - 1) \o SubSeq(seq, k + 1, Len(seq))

Min(S) == CHOOSE x \in S : \A y \in S : x <= y

\* The oldest due timer's callback runs: setPulseEmail(false) or setToast(null)
TimerFires ==
    /\ Due # {}
    /\ LET k == Min(Due)
       IN  /\ timers' = Remove(timers, k)
           /\ IF timers[k].kind = "pulse"
              THEN /\ pulseEmail' = FALSE
                   /\ UNCHANGED <<toast, toastAge>>
                   /\ ev' = Idle
              ELSE /\ toast' = Null
                   /\ toastAge' = 0
                   /\ UNCHANGED pulseEmail
                   /\ ev' = Event("toastTimeout",
                                  IF Falsy(toast) THEN "none" ELSE ToString(toastAge))
    /\ UNCHANGED <<apiUrl, error, communityCards, flyGhost, net>>
    /\ UNCHANGED authVars
    /\ UNCHANGED boardVars
    /\ UNCHANGED componentVars

\* Time passes up to the next timer's deadline
TimePasses ==
    /\ timers # <<>>
    /\ Due = {}
    /\ LET d == Min({timers[k].remaining : k \in 1..Len(timers)})
       IN  /\ timers' = [k \in 1..Len(timers) |->
                            [timers[k] EXCEPT !.remaining = @ - d]]
           /\ toastAge' = IF Falsy(toast) THEN 0 ELSE toastAge + d
    /\ ev' = Idle
    /\ UNCHANGED <<apiUrl, error, communityCards, flyGhost, net, toast, pulseEmail>>
    /\ UNCHANGED authVars
    /\ UNCHANGED boardVars
    /\ UNCHANGED componentVars

(***************************************************************************)
(* requestMagicLink.                                                       *)
(***************************************************************************)
MissingApiUrlMessage == "Missing VITE_API_URL (set it in frontend/.env)"
EmailPlusMessage == "Email must not contain '+'"
MagicLinkPlaceholder == "you can't see this"

\* A buggy guard: the '+' check is skipped
RequestBlockedNoPlusCheck == Falsy(apiUrl)

\* The early returns of requestMagicLink before its fetch
RequestBlocked == Falsy(apiUrl) \/ emailHasPlus

\* requestMagicLink() up to its await
requestMagicLink ==
    /\ magicLink' = Null
    /\ IF RequestBlocked
       THEN /\ error' = IF Falsy(apiUrl) THEN MissingApiUrlMessage ELSE EmailPlusMessage
            /\ net' = net
            /\ ev' = Event("requestMagicLink", "blocked")
       ELSE /\ CanSend
            /\ error' = Null
            /\ net' = Send([Request("magic-link") EXCEPT !.email = email])
            /\ ev' = Event("requestMagicLink", "sent")
    /\ UNCHANGED <<apiUrl, email, magicCode, token, communityCards, flyGhost>>
    /\ UNCHANGED boardVars
    /\ UNCHANGED toastVars
    /\ UNCHANGED componentVars

\* "Send magic code", rendered while magicLink is falsy, clicked while enabled
ClickSendMagicCode ==
    /\ Falsy(magicLink)
    /\ ~SendDisabled
    /\ requestMagicLink

\* requestMagicLink() invoked although its button is disabled
CallRequestMagicLink ==
    /\ Falsy(magicLink)
    /\ SendDisabled
    /\ requestMagicLink

\* requestMagicLink() after its await
MagicLinkResponseWith(resp) ==
    \E r \in InFlight :
        /\ r.kind = "magic-link"
        /\ net' = Receive(r)
        /\ IF ~resp.reach \/ ~resp.json
           THEN \* fetch() or resp.json() rejects; nothing catches it
                /\ UNCHANGED <<error, magicLink, magicCode>>
                /\ ev' = Event("magicLinkResponse", Outcome(resp))
           ELSE IF ~resp.ok
           THEN /\ error' = FailedMessage("Request", resp)
                /\ UNCHANGED <<magicLink, magicCode>>
                /\ ev' = Event("magicLinkResponse", "fail")
           ELSE /\ magicLink' = MagicLinkPlaceholder
                /\ magicCode' = <<>>
                /\ UNCHANGED error
                /\ ev' = Event("magicLinkResponse", "ok")
        /\ UNCHANGED <<apiUrl, email, token, communityCards, flyGhost>>
        /\ UNCHANGED boardVars
        /\ UNCHANGED toastVars
        /\ UNCHANGED componentVars

MagicLinkResponse == \E resp \in Responses("magic-link") : MagicLinkResponseWith(resp)

(***************************************************************************)
(* "Verify & log in".                                                      *)
(***************************************************************************)
\* A buggy check: the code is not trimmed before the emptiness test
VerifyCodeUntrimmed == magicCode

\* const code = magicCode.trim()
VerifyCode == Trim(magicCode)

\* The onClick of "Verify & log in" up to its await; rendered while magicLink
\* is truthy
ClickVerify ==
    /\ ~Falsy(magicLink)
    /\ IF Falsy(apiUrl)
       THEN /\ error' = "Missing VITE_API_URL"
            /\ net' = net
            /\ ev' = Event("verify", "blocked")
       ELSE IF Len(VerifyCode) = 0
       THEN /\ error' = "Enter your magic code"
            /\ net' = net
            /\ ev' = Event("verify", "empty")
       ELSE /\ CanSend
            /\ error' = Null
            /\ net' = Send([Request("verify") EXCEPT !.code = VerifyCode])
            /\ ev' = Event("verify", "sent")
    /\ UNCHANGED <<apiUrl, communityCards, flyGhost>>
    /\ UNCHANGED authVars
    /\ UNCHANGED boardVars
    /\ UNCHANGED toastVars
    /\ UNCHANGED componentVars

\* if (!resp.ok || !data.token)
VerifyRejects(resp) == ~resp.ok \/ Falsy(resp.token)

\* The onClick of "Verify & log in" after its await; every throw lands in its
\* catch block
VerifyResponseWith(resp) ==
    \E r \in InFlight :
        /\ r.kind = "verify"
        /\ IF ~resp.reach \/ ~resp.json
           THEN /\ error' = IF resp.reach THEN JsonErrorMessage ELSE FetchErrorMessage
                /\ net' = Receive(r)
                /\ UNCHANGED token
                /\ ev' = Event("verifyResponse", Outcome(resp))
           ELSE IF VerifyRejects(resp)
           THEN /\ error' = FailedMessage("Verification", resp)
                /\ net' = Receive(r)
                /\ UNCHANGED token
                /\ ev' = Event("verifyResponse", "fail")
           ELSE /\ token' = resp.token
                /\ net' = Receive(r) (+) SetToBag({LoadCommunityCardsRequest("verify")})
                /\ UNCHANGED error
                /\ ev' = Event("verifyAccepted", resp.token)
        /\ UNCHANGED <<apiUrl, email, magicLink, magicCode, communityCards, flyGhost>>
        /\ UNCHANGED boardVars
        /\ UNCHANGED toastVars
        /\ UNCHANGED componentVars

VerifyResponse == \E resp \in Responses("verify") : VerifyResponseWith(resp)

(***************************************************************************)
(* saveBoardToBackend.                                                     *)
(***************************************************************************)
\* A buggy guard: no login check before the PUT
SaveNeedsLoginNever == FALSE

\* if (!token)
SaveNeedsLogin == Falsy(token)

\* saveBoardToBackend() up to its await
saveBoardToBackend ==
    /\ IF Falsy(apiUrl)
       THEN /\ error' = MissingApiUrlMessage
            /\ net' = net
            /\ UNCHANGED toastVars
            /\ ev' = Event("saveBoardToBackend", "blocked")
       ELSE IF SaveNeedsLogin
       THEN /\ CanShowToast
            /\ error' = Null
            /\ net' = net
            /\ showAuthToast
            /\ ev' = Event("saveBoardToBackend", "toast")
       ELSE /\ CanSend
            /\ error' = Null
            /\ net' = Send([Request("save") EXCEPT
                                !.auth = token,
                                !.board = draftBoard,
                                !.cards = JSONStringify(draftBoard)])
            /\ UNCHANGED toastVars
            /\ ev' = Event("saveBoardToBackend", "sent")
    /\ UNCHANGED <<apiUrl, communityCards, flyGhost>>
    /\ UNCHANGED authVars
    /\ UNCHANGED boardVars
    /\ UNCHANGED componentVars

\* "Save", clicked while enabled
ClickSave ==
    /\ ~SaveDisabled
    /\ saveBoardToBackend

\* saveBoardToBackend() invoked although its button is disabled
CallSaveBoardToBackend ==
    /\ SaveDisabled
    /\ saveBoardToBackend

\* setSavedBoard(draftBoard): the draftBoard of the render that was clicked
SavedAfterSuccess(r) == r.board

\* saveBoardToBackend() after its await
SaveResponse ==
    \E r \in InFlight, resp \in Responses("save") :
        /\ r.kind = "save"
        /\ net' = Receive(r)
        /\ IF ~resp.reach \/ ~resp.json
           THEN \* fetch() or resp.json() rejects; nothing catches it
                /\ UNCHANGED <<error, savedBoard>>
                /\ ev' = Event("saveResponse", Outcome(resp))
           ELSE IF ~resp.ok
           THEN /\ error' = FailedMessage("Save", resp)
                /\ UNCHANGED savedBoard
                /\ ev' = Event("saveResponse", "fail")
           ELSE /\ savedBoard' = SavedAfterSuccess(r)
                /\ UNCHANGED error
                /\ ev' = Event("saveResponse", "ok")
        /\ UNCHANGED <<apiUrl, communityCards, flyGhost, draftBoard, objs, arrs>>
        /\ UNCHANGED authVars
        /\ UNCHANGED toastVars
        /\ UNCHANGED componentVars

(***************************************************************************)
(* loadCommunityCards.                                                     *)
(***************************************************************************)
\* A buggy replacement: an empty array is shown as it is
CommunityCardsAfterNoFallback(resp) ==
    IF resp.ok /\ resp.cards.tag = "array" THEN resp.cards.items ELSE communityCards

\* A buggy test: resp.ok is not looked at
CommunityCardsAfterIgnoresOk(resp) ==
    IF resp.cards.tag = "array"
    THEN IF Len(resp.cards.items) # 0 THEN resp.cards.items ELSE DEFAULT_COMMUNITY_CARDS
    ELSE communityCards

\* if (resp.ok && Array.isArray(data.cards))
\*   setCommunityCards(data.cards.length ? data.cards : DEFAULT_COMMUNITY_CARDS)
CommunityCardsAfter(resp) ==
    IF resp.ok /\ resp.cards.tag = "array"
    THEN IF Len(resp.cards.items) # 0 THEN resp.cards.items ELSE DEFAULT_COMMUNITY_CARDS
    ELSE communityCards

\* loadCommunityCards() after its await.  A throw is caught only when the
\* call was awaited inside the verify handler's try block.
CommunityResponseWith(resp) ==
    \E r \in InFlight :
        /\ r.kind = "community"
        /\ net' = Receive(r)
        /\ IF ~resp.reach \/ ~resp.json
           THEN /\ UNCHANGED communityCards
                /\ error' = IF r.catcher = "verify"
                            THEN (IF resp.reach THEN JsonErrorMessage ELSE FetchErrorMessage)
                            ELSE error
                /\ ev' = Event("communityResponse", Outcome(resp))
           ELSE /\ communityCards' = CommunityCardsAfter(resp)
                /\ UNCHANGED error
                /\ ev' = Event("communityResponse",
                               IF ~resp.ok THEN "fail"
                               ELSE IF resp.cards.tag # "array" THEN "noArray"
                               ELSE IF Len(resp.cards.items) # 0 THEN "list" ELSE "empty")
        /\ UNCHANGED <<apiUrl, flyGhost>>
        /\ UNCHANGED authVars
        /\ UNCHANGED boardVars
        /\ UNCHANGED toastVars
        /\ UNCHANGED componentVars

CommunityResponse == \E resp \in Responses("community") : CommunityResponseWith(resp)

(***************************************************************************)
(* contributeCardToCommunity.                                              *)
(***************************************************************************)
\* if (!token)
ContributeNeedsLogin == Falsy(token)

\* const card = draftBoard[index]: a reference to the card object
ContributedCard(index) == arrs[draftBoard][index + 1]

\* contributeCardToCommunity(index, cardEl) up to its await
ContributeCard(index) ==
    /\ ~Falsy(apiUrl)
    /\ IF ContributeNeedsLogin
       THEN /\ CanShowToast
            /\ net' = net
            /\ showAuthToast
            /\ ev' = Event("contribute", "toast")
       ELSE /\ CanSend
            /\ LET card == ContributedCard(index)
               IN  net' = Send([Request("contribute") EXCEPT
                                    !.auth = token,
                                    !.card = card,
                                    !.cardJson = StringifyCard(objs[card])])
            /\ UNCHANGED toastVars
            /\ ev' = Event("contribute", "sent")
    /\ UNCHANGED <<apiUrl, error, communityCards, flyGhost>>
    /\ UNCHANGED authVars
    /\ UNCHANGED boardVars
    /\ UNCHANGED componentVars

\* "Contribute" on a board cell
contributeCardToCommunity == \E index \in CellIndexes : ContributeCard(index)

\* contributeCardToCommunity() called while apiUrl is missing: it returns
ContributeWithoutApiUrl ==
    /\ Falsy(apiUrl)
    /\ ev' = Event("contribute", "blocked")
    /\ UNCHANGED <<apiUrl, error, communityCards, flyGhost, net>>
    /\ UNCHANGED authVars
    /\ UNCHANGED boardVars
    /\ UNCHANGED toastVars
    /\ UNCHANGED componentVars

\* A buggy animation trigger: the ghost flies whatever the response was
GhostWantedAlways(resp) == TRUE

\* if (resp.ok)
GhostWanted(resp) == resp.ok

\* setFlyGhost({...}) from the captured card and the two rectangles
FlyGhost(id, card, rect, toRect) ==
    [id |-> id,
     text |-> card.text,
     backgroundColor |-> card.backgroundColor,
     from |-> [x |-> rect.left, y |-> rect.top, w |-> rect.width, h |-> rect.height],
     to |-> [x |-> toRect.left + ScrollerOffsetX, y |-> toRect.top + ScrollerOffsetY]]

\* contributeCardToCommunity() after its await
ContributeResponse ==
    \E r \in InFlight, resp \in Responses("contribute"), id \in UUIDs,
       rect \in CardRects, found \in ScrollerRects :
        /\ r.kind = "contribute"
        /\ IF ~resp.reach
           THEN \* fetch() rejects; nothing catches it and nothing reloads
                /\ net' = Receive(r)
                /\ UNCHANGED flyGhost
                /\ ev' = Event("contributeResponse", "unreachable")
           ELSE /\ net' = Receive(r) (+) SetToBag({LoadCommunityCardsRequest("")})
                /\ flyGhost' = IF GhostWanted(resp) /\ found # <<>>
                               THEN << FlyGhost(id, objs[r.card], rect, found[1]) >>
                               ELSE flyGhost
                /\ ev' = Event("contributeResponse",
                               IF ~resp.ok THEN "fail"
                               ELSE IF found # <<>> THEN "ok" ELSE "okNoScroller")
        /\ UNCHANGED <<apiUrl, error, communityCards>>
        /\ UNCHANGED authVars
        /\ UNCHANGED boardVars
        /\ UNCHANGED toastVars
        /\ UNCHANGED componentVars

\* onAnimationEnd of the ghost element
FlyGhostAnimationEnd ==
    /\ flyGhost # <<>>
    /\ flyGhost' = <<>>
    /\ ev' = Idle
    /\ UNCHANGED <<apiUrl, error, communityCards, net>>
    /\ UNCHANGED authVars
    /\ UNCHANGED boardVars
    /\ UNCHANGED toastVars
    /\ UNCHANGED componentVars

(***************************************************************************)
(* The community carousel.  The effect of CommunityCarousel depends on     *)
(* [isPaused]: each run creates a closure with its own raf variable and a  *)
(* tick that reads the isPaused of the render that created it.  An effect  *)
(* and its cleanup run after the render is committed, so a frame callback  *)
(* that was already requested can run between a state change and the       *)
(* effect's next run.                                                      *)
(***************************************************************************)
\* el.scrollTop = v: the element keeps the offset inside its scrollable range
SetScrollTop(v) ==
    LET max == layout.scrollHeight - layout.clientHeight
    IN  IF v < 0 THEN 0 ELSE IF v > max THEN max ELSE v

\* const half = el.scrollHeight / 2
half == layout.scrollHeight \div 2

\* The body of tick when its isPaused is false: the new scrollTop
Scrolled(top) ==
    LET advanced == SetScrollTop(top + speedPxPerFrame)
    IN  IF advanced >= half THEN SetScrollTop(advanced - half) ELSE advanced

\* requestAnimationFrame: a handle no pending callback has
FrameHandle(pending) ==
    CHOOSE n \in 1..(Cardinality(pending) + 1) : \A f \in pending : f.id # n

\* The identity of a new effect closure
ClosureId(pending) ==
    CHOOSE n \in 1..(Cardinality(pending) + 1) : \A f \in pending : f.closure # n

\* cancelAnimationFrame(raf)
Cancel(pending, raf) == { f \in pending : f.id # raf }

\* setIsPaused(paused), from one of the scroller's four handlers
SetIsPaused(handler, paused) ==
    /\ mounted
    /\ isPaused' = paused
    /\ ev' = Event(handler, "")
    /\ UNCHANGED <<scrollTop, layout, mounted, effect, frames>>
    /\ UNCHANGED cardVars
    /\ UNCHANGED shellVars

onMouseEnter == SetIsPaused("onMouseEnter", TRUE)
onMouseLeave == SetIsPaused("onMouseLeave", FALSE)
onFocus == SetIsPaused("onFocus", TRUE)
onBlur == SetIsPaused("onBlur", FALSE)

\* The component leaves the tree
Unmount ==
    /\ mounted
    /\ mounted' = FALSE
    /\ ev' = Event("unmount", "")
    /\ UNCHANGED <<isPaused, scrollTop, layout, effect, frames>>
    /\ UNCHANGED cardVars
    /\ UNCHANGED shellVars

\* The frames left by the cleanup of the effect that ran last
CleanedUp ==
    IF effect = <<>> THEN frames ELSE Cancel(frames, effect[1].raf)

\* React runs the effect: after the first render, after a render in which
\* isPaused differs from the one of the last run (cleanup first), and the
\* cleanup alone after the unmount
RunEffect ==
    /\ \/ mounted /\ effect = <<>>
       \/ mounted /\ effect # <<>> /\ effect[1].isPaused # isPaused
       \/ ~mounted /\ effect # <<>>
    /\ IF mounted
       THEN LET raf == FrameHandle(CleanedUp)
                closure == ClosureId(CleanedUp)
            IN  /\ effect' = << [closure |-> closure, isPaused |-> isPaused, raf |-> raf] >>
                /\ frames' = CleanedUp \cup
                                 { [id |-> raf, closure |-> closure, isPaused |-> isPaused] }
       ELSE /\ effect' = <<>>
            /\ frames' = CleanedUp
    /\ ev' = Event("effect", "")
    /\ UNCHANGED <<isPaused, scrollTop, layout, mounted>>
    /\ UNCHANGED cardVars
    /\ UNCHANGED shellVars

\* The browser runs a requested frame callback: tick, of the closure that
\* requested it
tick ==
    \E f \in frames :
        LET rest == frames \ {f}
            raf == FrameHandle(rest)
        IN  /\ scrollTop' = IF f.isPaused THEN scrollTop ELSE Scrolled(scrollTop)
            /\ frames' = rest \cup {[f EXCEPT !.id = raf]}
            /\ effect' = IF effect # <<>> /\ effect[1].closure = f.closure
                         THEN << [effect[1] EXCEPT !.raf = raf] >>
                         ELSE effect
            /\ ev' = Event("tick", IF f.isPaused THEN "paused" ELSE "running")
            /\ UNCHANGED <<isPaused, layout, mounted>>
            /\ UNCHANGED cardVars
            /\ UNCHANGED shellVars

(***************************************************************************)
(* The cards of the board.  The build has one of the two BingoCard         *)
(* sources; each editable, tossable card has its own isTossing slot.       *)
(***************************************************************************)
\* toss(), the onClick of the Toss button
toss(i) ==
    /\ revision = "toss"
    /\ IF isTossing[i]
       THEN UNCHANGED <<isTossing, actionEvents>>
       ELSE /\ actionEvents[i] < MaxClicks
            /\ isTossing' = [isTossing EXCEPT ![i] = TRUE]
            /\ actionEvents' = [actionEvents EXCEPT ![i] = @ + 1]
    /\ ev' = Event("cardClick", ToString(i))
    /\ UNCHANGED revision
    /\ UNCHANGED carouselVars
    /\ UNCHANGED shellVars

\* The onClick of the Contribute button: the card element is always found
\* (the button is inside it), and onContribute is called with it
onContributeClick(i) ==
    /\ revision = "contribute"
    /\ actionEvents[i] < MaxClicks
    /\ actionEvents' = [actionEvents EXCEPT ![i] = @ + 1]
    /\ ev' = Event("cardClick", ToString(i))
    /\ UNCHANGED <<revision, isTossing>>
    /\ UNCHANGED carouselVars
    /\ UNCHANGED shellVars

\* onAnimationEnd of the card: the toss animation, which plays while the
\* card has the toss class, has ended
onAnimationEnd(i) ==
    /\ isTossing[i]
    /\ isTossing' = [isTossing EXCEPT ![i] = FALSE]
    /\ ev' = Event("animationEnd", ToString(i))
    /\ UNCHANGED <<revision, actionEvents>>
    /\ UNCHANGED carouselVars
    /\ UNCHANGED shellVars

ClickToss == \E i \in CellIndexes : toss(i)
ClickContribute == \E i \in CellIndexes : onContributeClick(i)
CardAnimationEnd == \E i \in CellIndexes : onAnimationEnd(i)

(***************************************************************************)
(* The shell: every control and every callback.                            *)
(***************************************************************************)
Next ==
    \/ SetEmail
    \/ SetMagicCode
    \/ StartOver
    \/ onCardTextChange
    \/ DismissToast
    \/ TimerFires
    \/ TimePasses
    \/ ClickSendMagicCode
    \/ CallRequestMagicLink
    \/ MagicLinkResponse
    \/ ClickVerify
    \/ VerifyResponse
    \/ ClickSave
    \/ CallSaveBoardToBackend
    \/ SaveResponse
    \/ CommunityResponse
    \/ contributeCardToCommunity
    \/ ContributeWithoutApiUrl
    \/ ContributeResponse
    \/ FlyGhostAnimationEnd
    \/ onMouseEnter
    \/ onMouseLeave
    \/ onFocus
    \/ onBlur
    \/ Unmount
    \/ RunEffect
    \/ tick
    \/ ClickContribute
    \/ CardAnimationEnd

Spec == Init /\ [][Next]_vars

(***************************************************************************)
(* A user who logs in with one address and one code that the backend       *)
(* accepts: the way the other scenarios obtain a token.                    *)
(***************************************************************************)
LoginEmail == <<"a", "@", "b">>
LoginCode == <<" ", "1">>

Accepting(kind) ==
    { resp \in Responses(kind) :
        resp.reach /\ resp.json /\ resp.ok /\ (kind = "verify" => ~Falsy(resp.token)) }

TypeLoginEmail == SetEmailTo(LoginEmail)
TypeLoginCode == SetMagicCodeTo(LoginCode)
MagicLinkAccepted == \E resp \in Accepting("magic-link") : MagicLinkResponseWith(resp)
VerifyAccepted == \E resp \in Accepting("verify") : VerifyResponseWith(resp)

(***************************************************************************)
(* Scenarios: each is the shell with the user confined to some controls.   *)
(***************************************************************************)
\* The login form, against a backend that may answer anything
NextAuth ==
    \/ SetEmail
    \/ SetMagicCode
    \/ StartOver
    \/ ClickSendMagicCode
    \/ CallRequestMagicLink
    \/ MagicLinkResponse
    \/ ClickVerify
    \/ VerifyResponse
    \/ CommunityResponse

SpecAuth == Init /\ [][NextAuth]_vars

\* Editing and saving the board
NextBoard ==
    \/ TypeLoginEmail
    \/ ClickSendMagicCode
    \/ MagicLinkAccepted
    \/ TypeLoginCode
    \/ ClickVerify
    \/ VerifyAccepted
    \/ CommunityResponse
    \/ onCardTextChange
    \/ ClickSave
    \/ SaveResponse

SpecBoard == Init /\ [][NextBoard]_vars

\* A backend whose community list is empty or failing
CommunityQuiet ==
    \E resp \in { x \in Responses("community") :
                    ~(x.ok /\ x.cards.tag = "array" /\ Len(x.cards.items) # 0) } :
        CommunityResponseWith(resp)

EditOnce == TextChangeWithin(MaxGateEdits)

\* The controls that need a login, used with and without one, enabled or not
NextGate ==
    \/ TypeLoginEmail
    \/ ClickSendMagicCode
    \/ MagicLinkAccepted
    \/ TypeLoginCode
    \/ ClickVerify
    \/ VerifyAccepted
    \/ CommunityQuiet
    \/ EditOnce
    \/ ClickSave
    \/ CallSaveBoardToBackend
    \/ SaveResponse
    \/ contributeCardToCommunity
    \/ ContributeWithoutApiUrl
    \/ ContributeResponse

SpecGate == Init /\ [][NextGate]_vars

\* A user who never logs in, and the login toast
NextToast ==
    \/ SetEmail
    \/ contributeCardToCommunity
    \/ ContributeWithoutApiUrl
    \/ CallSaveBoardToBackend
    \/ DismissToast
    \/ TimerFires
    \/ TimePasses

SpecToast == Init /\ [][NextToast]_vars

\* Reloading the community list, after a login and after each contribution
NextList ==
    \/ TypeLoginEmail
    \/ ClickSendMagicCode
    \/ MagicLinkAccepted
    \/ TypeLoginCode
    \/ ClickVerify
    \/ VerifyAccepted
    \/ contributeCardToCommunity
    \/ ContributeWithoutApiUrl
    \/ ContributeResponse
    \/ CommunityResponse

SpecList == Init /\ [][NextList]_vars

\* Contributing cards of a board that is being edited
NextContribute ==
    \/ TypeLoginEmail
    \/ ClickSendMagicCode
    \/ MagicLinkAccepted
    \/ TypeLoginCode
    \/ ClickVerify
    \/ VerifyAccepted
    \/ onCardTextChange
    \/ contributeCardToCommunity
    \/ ContributeWithoutApiUrl
    \/ ContributeResponse
    \/ CommunityQuiet
    \/ FlyGhostAnimationEnd

SpecContribute == Init /\ [][NextContribute]_vars

\* The carousel alone, in every geometry
InitCarousel ==
    /\ ShellInit
    /\ \E l \in Layouts : CarouselInit(l)
    /\ CardInit("contribute")

NextCarousel ==
    \/ onMouseEnter
    \/ onMouseLeave
    \/ onFocus
    \/ onBlur
    \/ Unmount
    \/ RunEffect
    \/ tick

SpecCarousel == InitCarousel /\ [][NextCarousel]_vars

\* The cards of the board alone, in either build
InitCard ==
    /\ ShellInit
    /\ CarouselInit(DefaultLayout)
    /\ \E rev \in Revisions : CardInit(rev)

NextCard ==
    \/ ClickToss
    \/ ClickContribute
    \/ CardAnimationEnd

SpecCard == InitCard /\ [][NextCard]_vars

(***************************************************************************)
(* Claims about saving the board, under SpecBoard.                         *)
(***************************************************************************)
SaveSucceeded == Event("saveResponse", "ok")

\* C1, as stated: whenever a save completes with a success response,
\* savedBoard equals draftBoard by deep value at that moment, also when cells
\* were edited while the PUT was in flight.
C1_SavedEqualsDraftAtCompletion ==
    ev = SaveSucceeded => Deref(savedBoard) = Deref(draftBoard)

\* C1, amended: whenever a save completes with a success response, savedBoard
\* equals by deep value the board that PUT carried (draftBoard as it was when
\* the save was invoked), and so equals the current draftBoard when no cell
\* was edited while the PUT was in flight; and every draft edit leaves
\* savedBoard at its pre-edit value (no aliasing between draft and saved).
C1_SavedIsTheBoardSent ==
    [][ /\ ev' = SaveSucceeded =>
              \E r \in InFlight :
                  /\ r.kind = "save"
                  /\ net' = Receive(r)
                  /\ JSONStringify(savedBoard)' = r.cards
                  /\ r.board = draftBoard => Deref(savedBoard)' = Deref(draftBoard)'
        /\ ev'.op = "onCardTextChange" =>
              /\ Deref(savedBoard)' = Deref(savedBoard)
              /\ Deref(draftBoard)' # Deref(draftBoard) ]_vars

\* C1 witness: a save has completed although a cell was edited while its PUT
\* was in flight, so saved and draft differ
C1_Witness ==
    /\ ev = SaveSucceeded
    /\ Deref(savedBoard) # Deref(draftBoard)
    /\ Deref(savedBoard) # createEmptyBoard

\* C2, as stated: when the PUT returns a non-ok response, draftBoard,
\* savedBoard and token are unchanged and the error slot holds a non-null
\* message.
C2_SaveFailureSurfaced ==
    [][ (ev'.op = "saveResponse" /\ ev'.arg \in {"fail", "failBadBody"}) =>
            /\ Deref(draftBoard)' = Deref(draftBoard)
            /\ Deref(savedBoard)' = Deref(savedBoard)
            /\ token' = token
            /\ error' # Null ]_vars

(***************************************************************************)
(* Claims about the login gate, under SpecGate.                            *)
(***************************************************************************)
Authenticated(r) == r.kind \in {"save", "contribute"}

\* C3: no authenticated request (PUT bingo3x3, POST contribute) is issued
\* while token is null, each carries the token of the moment it was issued,
\* and the Save button is enabled exactly when token is non-null and
\* draftBoard differs from savedBoard.
C3_LoginGate ==
    /\ [](/\ \A r \in InFlight : Authenticated(r) => r.auth # Null
          /\ ~SaveDisabled <=> (token # Null /\ Deref(draftBoard) # Deref(savedBoard)))
    /\ [][ \A r \in BagToSet(net') :
              (Authenticated(r) /\ CopiesIn(r, net') > CopiesIn(r, net)) =>
                  (token # Null /\ r.auth = token) ]_vars

\* C3 witness: a PUT and a POST contribute are in flight, both carrying the
\* token, while Save is enabled
C3_Witness ==
    /\ ~SaveDisabled
    /\ \E r \in InFlight : r.kind = "save" /\ r.auth = token
    /\ \E r \in InFlight : r.kind = "contribute" /\ r.auth = token

(***************************************************************************)
(* Claims about the login form, under SpecAuth.                            *)
(***************************************************************************)
\* C4, as stated: for a request started in idle, a success response moves
\* the shell to code entry (magicLink non-null, magicCode empty), and a non-ok
\* response leaves it idle and puts a non-null message in the error slot.
C4_RequestLinkOutcome ==
    [][ (ev'.op = "magicLinkResponse" /\ magicLink = Null) =>
            /\ ev'.arg \in {"ok", "okBadBody"} =>
                  (magicLink' # Null /\ magicCode' = <<>>)
            /\ ev'.arg \in {"fail", "failBadBody"} =>
                  (magicLink' = Null /\ error' # Null) ]_vars

VerifyFailed ==
    { Event("verify", "empty") } \cup
    { Event("verifyResponse", a) : a \in {"fail", "failBadBody", "okBadBody", "unreachable"} }

\* C5: verifying a code that is non-empty after trim and that the backend
\* accepts with a token stores that token and starts a community-list reload;
\* a code that is empty after trim issues no network call; every failure
\* leaves token and magicLink as they were (the shell stays in code entry) and
\* sets the error slot; token changes only by a successful verification, and
\* then to a non-null value.
C5_Verify ==
    [][ /\ ev'.op = "verifyAccepted" =>
              /\ \E r \in InFlight :
                    /\ r.kind = "verify"
                    /\ Len(r.code) > 0
                    /\ net' = Receive(r) (+) SetToBag({LoadCommunityCardsRequest("verify")})
              /\ token' = ev'.arg
              /\ ~Falsy(token')
        /\ (ev'.op = "verify" /\ Len(Trim(magicCode)) = 0) =>
              (net' = net /\ ev' = Event("verify", "empty") /\ magicLink' # Null)
        /\ ev' \in VerifyFailed =>
              (token' = token /\ magicLink' = magicLink /\ error' # Null)
        /\ token' # token => ev'.op = "verifyAccepted" ]_vars

\* C5 witness: a code with surrounding blanks was accepted; the token is
\* stored and the community reload is in flight
C5_Witness ==
    /\ ev = Event("verifyAccepted", "tok")
    /\ token = "tok"
    /\ BagIn(LoadCommunityCardsRequest("verify"), net)
    /\ magicCode = <<" ", "1">>

\* C6: no POST auth/magic-link is ever issued for an email containing '+':
\* the button is disabled for such an email and for an empty one, and
\* requestMagicLink, invoked anyway, returns with an error before any fetch.
C6_PlusNeverRequested ==
    /\ [](/\ \A r \in InFlight : r.kind = "magic-link" => ~IncludesPlus(r.email)
          /\ (emailHasPlus \/ email = <<>>) => SendDisabled)
    /\ [][ (ev'.op = "requestMagicLink" /\ emailHasPlus) =>
               (net' = net /\ error' # Null) ]_vars

\* C6 witness: requestMagicLink was invoked with a '+' email and returned
\* with the error, nothing in flight
C6_Witness ==
    /\ ev = Event("requestMagicLink", "blocked")
    /\ email = <<"a", "+", "b">>
    /\ error = EmailPlusMessage
    /\ net = EmptyBag

(***************************************************************************)
(* Claims about the login toast, under SpecToast.                          *)
(***************************************************************************)
\* C7, as stated: contribute or save invoked with token null (in a
\* configured deployment) makes no request, sets toast to exactly the login
\* text and sets pulseEmail; every toast, also one shown while an earlier
\* toast's timer is pending, stays until the user dismisses it or until its
\* timer removes it 2800 ms after it was shown.
C7_ToastLifecycle ==
    /\ [][ (ev'.op \in {"contribute", "saveBoardToBackend"}
              /\ token = Null /\ ~Falsy(apiUrl)) =>
               /\ net' = net
               /\ toast' = AuthToastText
               /\ toast' = "Log in to contribute and save your bingo."
               /\ pulseEmail' ]_vars
    /\ [][ (ev'.op = "toastTimeout" /\ toast # Null) => toastAge = ToastDelayMs ]_vars
    /\ [](toast # Null => toastAge <= ToastDelayMs)

(***************************************************************************)
(* Claims about the community list, under SpecList.                        *)
(***************************************************************************)
ListFetched(resp) ==
    resp.reach /\ resp.json /\ resp.ok /\ resp.cards.tag = "array"

\* C8: communityCards is never empty; a successful fetch that returns an
\* empty cards array sets the list to the built-in 15-item default set, and
\* one that returns a non-empty array replaces the list with that array.
C8_CommunityNeverEmpty ==
    /\ [](Len(communityCards) > 0)
    /\ [][ \A resp \in Responses("community") :
              (CommunityResponseWith(resp) /\ ListFetched(resp)) =>
                  IF resp.cards.items = <<>>
                  THEN /\ communityCards' = DEFAULT_COMMUNITY_CARDS
                       /\ Len(communityCards') = 15
                  ELSE communityCards' = resp.cards.items ]_vars

\* C8 witness: a fetch returned an empty array and the list is the default
\* set of 15
C8_Witness ==
    /\ ev = Event("communityResponse", "empty")
    /\ communityCards = DEFAULT_COMMUNITY_CARDS
    /\ Len(communityCards) = 15

ListFetchFailed ==
    { Event("communityResponse", a) : a \in {"fail", "failBadBody", "unreachable"} }

\* C9, as stated: when the list call fails (non-ok response or backend
\* unreachable) the community list is the built-in default set, whatever it
\* held before the call.
C9_FailureFallsBackToDefault ==
    ev \in ListFetchFailed => communityCards = DEFAULT_COMMUNITY_CARDS

\* C9, amended: when the list call fails (non-ok response or backend
\* unreachable) the community list is left as it was: the default set while
\* no fetch has replaced it, and otherwise the list an earlier fetch loaded.
C9_FailureKeepsList ==
    [][ ev' \in ListFetchFailed => communityCards' = communityCards ]_vars

\* C9 witness: the list call failed after an earlier fetch had loaded a
\* non-default list, which is still shown
C9_Witness ==
    /\ ev \in ListFetchFailed
    /\ communityCards = ListA

(***************************************************************************)
(* Claims about contributing a card, under SpecContribute.                 *)
(***************************************************************************)
ReloadStarted(r) ==
    net' = Receive(r) (+) SetToBag({LoadCommunityCardsRequest("")})

\* C10: an authenticated contribute of cell i sends draftBoard[i] with the
\* token; on a success response a fly-ghost of that card is created when the
\* carousel viewport is found, and the community reload is started; on a
\* non-ok response no fly-ghost is created and the reload is still started;
\* draftBoard is unchanged throughout.
C10_Contribute ==
    [][ /\ \A index \in CellIndexes :
              (ContributeCard(index) /\ token # Null) =>
                  \E r \in BagToSet(net') :
                      /\ r.kind = "contribute"
                      /\ net' = Send(r)
                      /\ r.cardJson = StringifyCard(Deref(draftBoard)[index + 1])
                      /\ r.auth = token
        /\ ev' = Event("contributeResponse", "ok") =>
              \E r \in InFlight :
                  /\ r.kind = "contribute"
                  /\ ReloadStarted(r)
                  /\ flyGhost' # <<>>
                  /\ flyGhost'[1].text = r.cardJson[2]
                  /\ flyGhost'[1].backgroundColor = r.cardJson[3]
        /\ ev' \in {Event("contributeResponse", "fail"),
                    Event("contributeResponse", "okNoScroller")} =>
              \E r \in InFlight :
                  /\ r.kind = "contribute"
                  /\ ReloadStarted(r)
                  /\ flyGhost' = flyGhost
        /\ ev'.op \in {"contribute", "contributeResponse"} =>
              (draftBoard' = draftBoard /\ Deref(draftBoard)' = Deref(draftBoard)) ]_vars

\* C10 witness: a card edited to "Knit a swatch" was contributed with
\* success; its ghost flies and the reload is in flight
C10_Witness ==
    /\ ev = Event("contributeResponse", "ok")
    /\ flyGhost # <<>>
    /\ flyGhost[1].text = "Knit a swatch"
    /\ BagIn(LoadCommunityCardsRequest(""), net)

(***************************************************************************)
(* Claims about the shape of the boards, under SpecBoard.                  *)
(***************************************************************************)
\* C13: in every reachable state draftBoard and savedBoard each hold exactly
\* 9 cards with the ids and colors of the initial board in the same
\* positions, so BingoBoard's guard never throws on the board it is given;
\* the cards of draftBoard change only in an onCardTextChange step, and
\* then only in their text.
C13_BoardShape ==
    /\ [](/\ \A b \in {draftBoard, savedBoard} :
               /\ Len(Deref(b)) = BoardSize
               /\ \A j \in 1..BoardSize :
                      /\ Deref(b)[j].id = createEmptyBoard[j].id
                      /\ Deref(b)[j].backgroundColor =
                             createEmptyBoard[j].backgroundColor
           /\ ~BingoBoardThrows(Deref(draftBoard)))
    /\ [][ Deref(draftBoard)' # Deref(draftBoard) =>
               ev'.op = "onCardTextChange" ]_vars

\* C13 witness: two cells were edited and the edited board was saved
C13_Witness ==
    /\ ev = SaveSucceeded
    /\ \A j \in 1..2 :
          /\ Deref(draftBoard)[j].text = "Knit a swatch"
          /\ Deref(savedBoard)[j].text = "Knit a swatch"

(***************************************************************************)
(* Claims about the carousel, under SpecCarousel.                          *)
(***************************************************************************)
\* C11, as stated: with pause disabled, each carousel tick advances the
\* scroll offset by the fixed increment and, when the offset reaches or
\* passes half of the scrollable extent, subtracts exactly that half;
\* starting from an offset in [0, half) the offset is again in [0, half)
\* after the tick, and between wraparounds it is non-decreasing.
C11_TickAdvancesAndWraps ==
    [][ (/\ ev' = Event("tick", "running")
         /\ ~isPaused
         /\ 0 <= scrollTop /\ scrollTop < half)
        => /\ scrollTop' = IF scrollTop + speedPxPerFrame >= half
                           THEN scrollTop + speedPxPerFrame - half
                           ELSE scrollTop + speedPxPerFrame
           /\ 0 <= scrollTop' /\ scrollTop' < half
           /\ scrollTop + speedPxPerFrame < half => scrollTop' >= scrollTop ]_vars

\* C12, as stated: mouse-enter and focus set the pause flag, mouse-leave and
\* blur clear it; while the flag is set no tick changes the scroll offset;
\* every tick re-arms the loop; at most one tick callback is scheduled at
\* a time, and none is left once the effect was cleaned up at unmount.
C12_PauseAndSingleFrame ==
    /\ [][ /\ ev'.op \in {"onMouseEnter", "onFocus"} => isPaused'
           /\ ev'.op \in {"onMouseLeave", "onBlur"} => ~isPaused'
           /\ (ev'.op = "tick" /\ isPaused) => scrollTop' = scrollTop
           /\ ev'.op = "tick" => Cardinality(frames') = 1 ]_vars
    /\ [](/\ Cardinality(frames) <= 1
          /\ (~mounted /\ effect = <<>>) => frames = {})

(***************************************************************************)
(* Claims about the cards of the board, under SpecCard.                    *)
(***************************************************************************)
\* C14, as stated: an editable, tossable card emits exactly one action
\* event per accepted click; the click sets the card's isTossing flag, a
\* click while the flag is set emits nothing, and the flag is reset only by
\* the animation-end event.
C14_OneEmitPerToss ==
    [][ \A i \in CellIndexes :
          /\ ev' = Event("cardClick", ToString(i)) =>
                IF isTossing[i]
                THEN actionEvents' = actionEvents /\ isTossing' = isTossing
                ELSE /\ actionEvents' = [actionEvents EXCEPT ![i] = @ + 1]
                     /\ isTossing' = [isTossing EXCEPT ![i] = TRUE]
          /\ actionEvents'[i] # actionEvents[i] =>
                ev' = Event("cardClick", ToString(i))
          /\ (isTossing[i] /\ ~isTossing'[i]) =>
                ev' = Event("animationEnd", ToString(i)) ]_vars

====
